---- MODULE Spec2Model ----
(***************************************************************************)
(* Verification model of gabsn/reverse-geo.                                *)
(*                                                                         *)
(* Part I  : the in-memory GeocodingService (src/utils/geoUtils.ts) and    *)
(*           the HTTP handler in front of it (src/api/server.ts).           *)
(* Part II : the administrative hierarchy built by the osm2pgsql flex      *)
(*           script embedded in bin/2-import-in-pg.sh and the recursive    *)
(*           place_hierarchy view that ascends it.                          *)
(*                                                                         *)
(* Coordinates are integers in units of 1e-4 degree, so 48.8566 is 488566. *)
(* Query-string values are sequences of one-character strings.             *)
(***************************************************************************)
EXTENDS Integers, Sequences, FiniteSets, TLC

VARIABLES
    fileExists,        \* fs.existsSync(GEO_CONFIG.countriesFile)
    testDirExists,     \* fs.existsSync(GEO_CONFIG.testDataDir)
    isLoaded,          \* GeocodingService.isLoaded
    countryBoundaries, \* GeocodingService.countryBoundaries (Map, insertion order)
    loadPc,            \* position of each loadData() call
    serverPc,          \* position of the server.ts top-level script
    last,              \* the most recent completed operation and its outcome
    first,             \* the recorded earlier lookup that later ones are compared to
    osm,               \* the OSM objects osm2pgsql reads, in file order
    cursor,            \* index of the next object of osm to process
    importPc,          \* stage of the import and of the place_hierarchy query
    boundaries,        \* table boundaries (rows in insertion order)
    places,            \* table places
    admin_hierarchy,   \* table admin_hierarchy
    hWork,             \* recursive CTE hierarchy: the working table
    hRows,             \* recursive CTE hierarchy: the rows produced so far
    hIter,             \* recursive CTE hierarchy: iterations of the recursive term
    place_hierarchy,   \* the rows the place_hierarchy view returned
    shPc,              \* position of the bin/2-import-in-pg.sh run
    pgRunning,         \* pg_isready succeeds
    dbExists,          \* the cluster has a database reverse_geo
    extensions,        \* extensions created in reverse_geo
    available,         \* extensions installed on the host, that CREATE EXTENSION finds
    inputFiles,        \* which of the two files the script tests for exist
    imported,          \* osm2pgsql has created and filled the tables
    indexed            \* the three indexes on boundaries exist

svcVars == <<fileExists, testDirExists, isLoaded, countryBoundaries, loadPc,
             serverPc, last, first>>

dbVars == <<osm, cursor, importPc, boundaries, places, admin_hierarchy,
            hWork, hRows, hIter, place_hierarchy>>

shVars == <<shPc, pgRunning, dbExists, extensions, available, inputFiles,
            imported, indexed>>

vars == <<svcVars, dbVars, shVars>>

(***************************************************************************)
(* Bounds of the model.                                                    *)
(***************************************************************************)
\* number of clients, besides the server, that call loadData() on the service
MaxLoadCalls == 1

ServerCaller == 0
Callers == 0 .. MaxLoadCalls

(***************************************************************************)
(* Numbers.                                                                *)
(***************************************************************************)
\* a value written in tenths of a degree, in the model's unit of 1e-4 degree
Deg(tenths) == tenths * 1000

Abs(x) == IF x < 0 THEN -x ELSE x

(***************************************************************************)
(* parseFloat, as far as the query values of this model go: leading        *)
(* blanks, an optional sign, digits, an optional fraction; what follows    *)
(* the longest numeric prefix is ignored; no digit at all gives NaN.       *)
(***************************************************************************)
DigitChars == <<"0", "1", "2", "3", "4", "5", "6", "7", "8", "9">>

IsDigit(c) == \E i \in 1 .. 10 : DigitChars[i] = c

DigitVal(c) == (CHOOSE i \in 1 .. 10 : DigitChars[i] = c) - 1

RECURSIVE SkipBlanks(_)
SkipBlanks(s) ==
    IF s # <<>> /\ Head(s) = " " THEN SkipBlanks(Tail(s)) ELSE s

RECURSIVE DigitPrefix(_)
DigitPrefix(s) ==
    IF s # <<>> /\ IsDigit(Head(s))
    THEN <<Head(s)>> \o DigitPrefix(Tail(s))
    ELSE <<>>

RECURSIVE IntOfDigits(_)
IntOfDigits(ds) ==
    IF ds = <<>> THEN 0
    ELSE IntOfDigits(SubSeq(ds, 1, Len(ds) - 1)) * 10 + DigitVal(ds[Len(ds)])

\* the fraction digits as a count of 1e-4: ".8566" is 8566, ".5" is 5000
FracOfDigits(ds) ==
    LET d(i) == IF i <= Len(ds) THEN DigitVal(ds[i]) ELSE 0
    IN  d(1) * 1000 + d(2) * 100 + d(3) * 10 + d(4)

NaN == [nan |-> TRUE, v |-> 0]

parseFloat(s) ==
    LET t      == SkipBlanks(s)
        signed == t # <<>> /\ Head(t) \in {"-", "+"}
        neg    == t # <<>> /\ Head(t) = "-"
        u      == IF signed THEN Tail(t) ELSE t
        ip     == DigitPrefix(u)
        r      == SubSeq(u, Len(ip) + 1, Len(u))
        fp     == IF r # <<>> /\ Head(r) = "." THEN DigitPrefix(Tail(r)) ELSE <<>>
        mag    == IntOfDigits(ip) * 10000 + FracOfDigits(fp)
    IN  IF ip = <<>> /\ fp = <<>>
        THEN NaN
        ELSE [nan |-> FALSE, v |-> IF neg THEN -mag ELSE mag]

isNaN(x) == x.nan

(***************************************************************************)
(* The predefined countries of loadPredefinedCountries, in array order.    *)
(* bbox is [west, south, east, north].                                     *)
(***************************************************************************)
countries == <<
    [name |-> "France", code |-> "FR", continent |-> "Europe",
     population |-> 67000000,
     bbox |-> <<Deg(-51), Deg(413), Deg(96), Deg(511)>>],
    [name |-> "Germany", code |-> "DE", continent |-> "Europe",
     population |-> 83000000,
     bbox |-> <<Deg(58), Deg(472), Deg(150), Deg(551)>>],
    [name |-> "United Kingdom", code |-> "GB", continent |-> "Europe",
     population |-> 67000000,
     bbox |-> <<Deg(-86), Deg(499), Deg(18), Deg(609)>>],
    [name |-> "United States", code |-> "US", continent |-> "North America",
     population |-> 331000000,
     bbox |-> <<Deg(-1250), Deg(240), Deg(-660), Deg(490)>>],
    [name |-> "Canada", code |-> "CA", continent |-> "North America",
     population |-> 38000000,
     bbox |-> <<Deg(-1410), Deg(417), Deg(-526), Deg(831)>>],
    [name |-> "Australia", code |-> "AU", continent |-> "Oceania",
     population |-> 25000000,
     bbox |-> <<Deg(1130), Deg(-436), Deg(1536), Deg(-106)>>],
    [name |-> "Japan", code |-> "JP", continent |-> "Asia",
     population |-> 126000000,
     bbox |-> <<Deg(1295), Deg(310), Deg(1458), Deg(455)>>],
    [name |-> "Brazil", code |-> "BR", continent |-> "South America",
     population |-> 212000000,
     bbox |-> <<Deg(-739), Deg(-337), Deg(-347), Deg(52)>>]
>>

(***************************************************************************)
(* Geometry: turf.bboxPolygon, turf.point, turf.booleanPointInPolygon.     *)
(* A position is <<longitude, latitude>>; a ring is a closed sequence of   *)
(* positions.                                                              *)
(***************************************************************************)
bboxPolygon(bbox) ==
    LET west == bbox[1]  south == bbox[2]  east == bbox[3]  north == bbox[4]
    IN  [type |-> "Polygon",
         coordinates |-> << << <<west, south>>, <<east, south>>,
                               <<east, north>>, <<west, north>>,
                               <<west, south>> >> >>]

\* turf.point: the position, or an Error when a coordinate is not a number
point(position) == position

isNumber(coordinates) == coordinates.numeric

Between(a, x, b) == (a <= x /\ x <= b) \/ (b <= x /\ x <= a)

\* the point lies on the segment p--q (the rings of this model have
\* axis-parallel edges only; an oblique edge is decided by the cross product)
OnSegment(pt, p, q) ==
    IF p[1] = q[1]
    THEN pt[1] = p[1] /\ Between(p[2], pt[2], q[2])
    ELSE IF p[2] = q[2]
    THEN pt[2] = p[2] /\ Between(p[1], pt[1], q[1])
    ELSE /\ Between(p[1], pt[1], q[1])
         /\ Between(p[2], pt[2], q[2])
         /\ (q[1] - p[1]) * (pt[2] - p[2]) = (q[2] - p[2]) * (pt[1] - p[1])

OnRing(pt, ring) ==
    \E i \in 1 .. Len(ring) - 1 : OnSegment(pt, ring[i], ring[i + 1])

\* the edge p--q is crossed by the ray from pt towards +x
Crosses(pt, p, q) ==
    /\ (p[2] > pt[2]) # (q[2] > pt[2])
    /\ IF p[1] = q[1]
       THEN pt[1] < p[1]
       ELSE (pt[1] - p[1]) * Abs(q[2] - p[2])
                < ((q[1] - p[1]) * (pt[2] - p[2])) * (IF q[2] > p[2] THEN 1 ELSE -1)

RECURSIVE CrossCount(_, _, _)
CrossCount(pt, ring, i) ==
    IF i >= Len(ring) THEN 0
    ELSE (IF Crosses(pt, ring[i], ring[i + 1]) THEN 1 ELSE 0)
         + CrossCount(pt, ring, i + 1)

\* a point on the boundary counts as inside (ignoreBoundary is not set)
booleanPointInPolygon(pt, polygon) ==
    LET ring == polygon.coordinates[1]
    IN  OnRing(pt, ring) \/ CrossCount(pt, ring, 1) % 2 = 1

(***************************************************************************)
(* Map<string, any>: a sequence of <<key, value>> in insertion order;      *)
(* set() of a present key replaces the value in place.                     *)
(***************************************************************************)
MapHas(m, k) == \E i \in 1 .. Len(m) : m[i][1] = k

MapSet(m, k, v) ==
    IF MapHas(m, k)
    THEN [i \in 1 .. Len(m) |-> IF m[i][1] = k THEN <<k, v>> ELSE m[i]]
    ELSE Append(m, <<k, v>>)

RECURSIVE SetAll(_, _, _)
SetAll(m, cs, i) ==
    IF i > Len(cs) THEN m
    ELSE SetAll(MapSet(m, cs[i].code,
                       [name |-> cs[i].name, code |-> cs[i].code,
                        continent |-> cs[i].continent,
                        population |-> cs[i].population,
                        bbox |-> cs[i].bbox,
                        geometry |-> bboxPolygon(cs[i].bbox)]),
                cs, i + 1)

\* the map after loadPredefinedCountries() has run on map m
loadPredefinedCountries(m) == SetAll(m, countries, 1)

(***************************************************************************)
(* GeocodingService.getCountryByCoordinates.                               *)
(***************************************************************************)
NoCountry == [name |-> "", code |-> "", continent |-> "", population |-> 0]

CountryInfoOf(country) ==
    [name |-> country.name, code |-> country.code,
     continent |-> country.continent, population |-> country.population]

\* mutant: a default country (the first entry) when no polygon contains the point
RECURSIVE FirstContainingOrDefault(_, _, _)
FirstContainingOrDefault(m, pt, i) ==
    IF i > Len(m)
    THEN IF m = <<>>
         THEN [outcome |-> "null", country |-> NoCountry]
         ELSE [outcome |-> "country", country |-> CountryInfoOf(m[1][2])]
    ELSE IF booleanPointInPolygon(pt, m[i][2].geometry)
         THEN [outcome |-> "country", country |-> CountryInfoOf(m[i][2])]
         ELSE FirstContainingOrDefault(m, pt, i + 1)

\* mutant: the loop starts one entry too late
RECURSIVE FirstContainingSkipFirst(_, _, _)
FirstContainingSkipFirst(m, pt, i) ==
    IF i + 1 > Len(m)
    THEN [outcome |-> "null", country |-> NoCountry]
    ELSE IF booleanPointInPolygon(pt, m[i + 1][2].geometry)
         THEN [outcome |-> "country", country |-> CountryInfoOf(m[i + 1][2])]
         ELSE FirstContainingSkipFirst(m, pt, i + 1)

\* the for-of loop over countryBoundaries.entries(): the first entry, in
\* insertion order, whose polygon contains the point
RECURSIVE FirstContaining(_, _, _)
FirstContaining(m, pt, i) ==
    IF i > Len(m)
    THEN [outcome |-> "null", country |-> NoCountry]
    ELSE IF booleanPointInPolygon(pt, m[i][2].geometry)
         THEN [outcome |-> "country", country |-> CountryInfoOf(m[i][2])]
         ELSE FirstContaining(m, pt, i + 1)

\* mutant: turf.point is called outside the try block
getCountryByCoordinates_uncaught(coordinates) ==
    IF ~isLoaded \/ ~isNumber(coordinates)
    THEN [outcome |-> "throw", country |-> NoCountry, caught |-> FALSE]
    ELSE LET r == FirstContaining(countryBoundaries,
                      point(<<coordinates.longitude, coordinates.latitude>>), 1)
         IN  [outcome |-> r.outcome, country |-> r.country, caught |-> FALSE]

\* the value the call returns ("country" or "null"), or "throw"; caught tells
\* that the null comes from the catch block (turf.point threw)
getCountryByCoordinates(coordinates) ==
    IF ~isLoaded
    THEN [outcome |-> "throw", country |-> NoCountry, caught |-> FALSE]
    ELSE IF ~isNumber(coordinates)
    THEN [outcome |-> "null", country |-> NoCountry, caught |-> TRUE]
    ELSE LET r == FirstContaining(countryBoundaries,
                      point(<<coordinates.longitude, coordinates.latitude>>), 1)
         IN  [outcome |-> r.outcome, country |-> r.country, caught |-> FALSE]

(***************************************************************************)
(* The inputs of the model.                                                *)
(***************************************************************************)
Coord(lat, lon) == [latitude |-> lat, longitude |-> lon, numeric |-> TRUE]

\* coordinates whose latitude is NaN; the fields hold no number
NaNCoord == [latitude |-> 0, longitude |-> 0, numeric |-> FALSE]

Paris == Coord(488566, 23522)

\* coordinates handed to the service by clients that call it directly
Points ==
    { Paris,
      Coord(0, 0),                   \* mid-ocean
      Coord(Deg(500), Deg(80)),      \* inside the France and Germany boxes
      Coord(Deg(450), Deg(-1000)),   \* inside the United States and Canada boxes
      Coord(356762, 1396503),        \* Tokyo
      Coord(Deg(413), Deg(0)),       \* on the south edge of the France box
      Coord(Deg(910), Deg(0)),       \* latitude out of range
      Coord(Deg(0), Deg(-1810)),     \* longitude out of range
      NaNCoord }

\* values of the lat query parameter (<<>> is a missing parameter)
LatStrings ==
    { <<"4", "8", ".", "8", "5", "6", "6">>, <<"0">>, <<"5", "0">>,
      <<"-", "9", "1">>, <<"5", "0", "x">>, <<>> }

\* values of the lon query parameter
LonStrings ==
    { <<"2", ".", "3", "5", "2", "2">>, <<"0">>, <<"8">>,
      <<"1", "8", "1">>, <<"a", "b", "c">> }

(***************************************************************************)
(* The record of the most recent operation.                                *)
(***************************************************************************)
NoOp ==
    [op |-> "none", caller |-> -1, rawLat |-> <<>>, rawLon |-> <<>>,
     coords |-> Coord(0, 0), status |-> 0, invoked |-> FALSE,
     outcome |-> "none", country |-> NoCountry, caught |-> FALSE]

NoFirst == [set |-> FALSE, op |-> "none", coords |-> Coord(0, 0),
            outcome |-> "none", country |-> NoCountry]

\* the earlier lookup kept for comparison: the first one on the loaded service
Remember(op, coordinates, r) ==
    IF ~first.set /\ isLoaded
    THEN [set |-> TRUE, op |-> op, coords |-> coordinates,
          outcome |-> r.outcome, country |-> r.country]
    ELSE first

(***************************************************************************)
(* Init.                                                                   *)
(***************************************************************************)
\* no OSM file has been imported
NoImport ==
    /\ osm = <<>>
    /\ cursor = 1
    /\ importPc = "import"
    /\ boundaries = <<>>
    /\ places = <<>>
    /\ admin_hierarchy = <<>>
    /\ hWork = {}
    /\ hRows = {}
    /\ hIter = 0
    /\ place_hierarchy = {}

\* bin/2-import-in-pg.sh has not been started
NoShell ==
    /\ shPc = "start"
    /\ pgRunning = FALSE
    /\ dbExists = FALSE
    /\ extensions = {}
    /\ available = {}
    /\ inputFiles = {}
    /\ imported = FALSE
    /\ indexed = FALSE

Init ==
    /\ fileExists \in BOOLEAN
    /\ testDirExists = FALSE
    /\ isLoaded = FALSE
    /\ countryBoundaries = <<>>
    /\ loadPc = [c \in Callers |-> "idle"]
    /\ serverPc = "init"
    /\ last = NoOp
    /\ first = NoFirst
    /\ NoImport
    /\ NoShell

(***************************************************************************)
(* checkOsmDataFiles (osmData.ts): the data directory and the countries    *)
(* file exist; the file lies in the directory.                             *)
(***************************************************************************)
checkOsmDataFiles == fileExists

(***************************************************************************)
(* GeocodingService.loadData, called by caller c.  The call runs up to the *)
(* await of extractTestCountries() in one step and the rest in another.    *)
(***************************************************************************)
LoadRecord(c, result) ==
    [NoOp EXCEPT !.op = "loadData", !.caller = c, !.outcome = result]

\* mutant: the loaded flag is raised before the await, the countries stored after
loadData_begin_flagFirst(c) ==
    /\ loadPc[c] = "idle"
    /\ IF isLoaded
       THEN /\ loadPc' = [loadPc EXCEPT ![c] = "resolved"]
            /\ last' = LoadRecord(c, "resolved")
            /\ UNCHANGED <<testDirExists, isLoaded>>
       ELSE IF ~fileExists
       THEN /\ loadPc' = [loadPc EXCEPT ![c] = "rejected"]
            /\ last' = LoadRecord(c, "rejected")
            /\ UNCHANGED <<testDirExists, isLoaded>>
       ELSE /\ testDirExists' = TRUE
            /\ isLoaded' = TRUE
            /\ loadPc' = [loadPc EXCEPT ![c] = "await"]
            /\ last' = LoadRecord(c, "pending")
    /\ UNCHANGED countryBoundaries

\* mutant: the countries are stored before the file is checked
loadData_begin_storeFirst(c) ==
    /\ loadPc[c] = "idle"
    /\ IF isLoaded
       THEN /\ loadPc' = [loadPc EXCEPT ![c] = "resolved"]
            /\ last' = LoadRecord(c, "resolved")
            /\ UNCHANGED <<testDirExists, countryBoundaries>>
       ELSE IF ~fileExists
       THEN /\ loadPc' = [loadPc EXCEPT ![c] = "rejected"]
            /\ last' = LoadRecord(c, "rejected")
            /\ countryBoundaries' = loadPredefinedCountries(countryBoundaries)
            /\ UNCHANGED testDirExists
       ELSE /\ testDirExists' = TRUE
            /\ loadPc' = [loadPc EXCEPT ![c] = "await"]
            /\ last' = LoadRecord(c, "pending")
            /\ UNCHANGED countryBoundaries
    /\ UNCHANGED isLoaded

loadData_begin(c) ==
    /\ loadPc[c] = "idle"
    /\ IF isLoaded
       THEN /\ loadPc' = [loadPc EXCEPT ![c] = "resolved"]
            /\ last' = LoadRecord(c, "resolved")
            /\ UNCHANGED testDirExists
       ELSE IF ~fileExists
       THEN /\ loadPc' = [loadPc EXCEPT ![c] = "rejected"]
            /\ last' = LoadRecord(c, "rejected")
            /\ UNCHANGED testDirExists
       ELSE /\ testDirExists' = TRUE
            /\ loadPc' = [loadPc EXCEPT ![c] = "await"]
            /\ last' = LoadRecord(c, "pending")
    /\ UNCHANGED <<isLoaded, countryBoundaries>>

\* mutant: the countries are appended, not set by key
loadData_resume_append(c) ==
    /\ loadPc[c] = "await"
    /\ countryBoundaries' = countryBoundaries \o loadPredefinedCountries(<<>>)
    /\ isLoaded' = TRUE
    /\ loadPc' = [loadPc EXCEPT ![c] = "resolved"]
    /\ last' = LoadRecord(c, "resolved")
    /\ UNCHANGED testDirExists

loadData_resume(c) ==
    /\ loadPc[c] = "await"
    /\ countryBoundaries' = loadPredefinedCountries(countryBoundaries)
    /\ isLoaded' = TRUE
    /\ loadPc' = [loadPc EXCEPT ![c] = "resolved"]
    /\ last' = LoadRecord(c, "resolved")
    /\ UNCHANGED testDirExists

(***************************************************************************)
(* server.ts, top level.                                                   *)
(***************************************************************************)
\* lines 12-18: process.exit(1) when the data files are missing
ServerBoot ==
    /\ serverPc = "init"
    /\ serverPc' = IF checkOsmDataFiles THEN "checked" ELSE "exited"
    /\ UNCHANGED <<fileExists, testDirExists, isLoaded, countryBoundaries,
                   loadPc, last, first>>
    /\ UNCHANGED <<dbVars, shVars>>

\* line 127 and lines 32-35: initializeGeocodingService() up to its await
initializeGeocodingService ==
    /\ serverPc = "checked"
    /\ loadData_begin(ServerCaller)
    /\ serverPc' = "loading"
    /\ UNCHANGED <<fileExists, first>>
    /\ UNCHANGED <<dbVars, shVars>>

\* lines 36-43: startServer() once loadData resolved, process.exit(1) if it threw
startServer ==
    /\ serverPc = "loading"
    /\ loadPc[ServerCaller] \in {"resolved", "rejected"}
    /\ serverPc' = IF loadPc[ServerCaller] = "resolved" THEN "listening" ELSE "exited"
    /\ UNCHANGED <<fileExists, testDirExists, isLoaded, countryBoundaries,
                   loadPc, last, first>>
    /\ UNCHANGED <<dbVars, shVars>>

ServerLoadResume ==
    /\ serverPc = "loading"
    /\ loadData_resume(ServerCaller)
    /\ UNCHANGED <<fileExists, serverPc, first>>
    /\ UNCHANGED <<dbVars, shVars>>

(***************************************************************************)
(* server.ts getCountryByCoordinates: the GET /api/country handler.        *)
(***************************************************************************)
OutOfRange(lat, lon) ==
    lat < Deg(-900) \/ lat > Deg(900) \/ lon < Deg(-1800) \/ lon > Deg(1800)

\* lines 79-100: the status the handler answers for what the lookup gave
ResponseStatus(countryInfo) ==
    IF countryInfo.outcome = "throw" THEN 500
    ELSE IF countryInfo.outcome = "country" THEN 200
    ELSE 404

HttpRecord(rawLat, rawLon) ==
    LET lat == parseFloat(rawLat)
        lon == parseFloat(rawLon)
        req == [NoOp EXCEPT !.op = "http", !.rawLat = rawLat, !.rawLon = rawLon]
    IN  IF isNaN(lat) \/ isNaN(lon)
        THEN [req EXCEPT !.status = 400]
        ELSE IF OutOfRange(lat.v, lon.v)
        THEN [req EXCEPT !.status = 400]
        ELSE LET coordinates == Coord(lat.v, lon.v)
                 countryInfo == getCountryByCoordinates(coordinates)
                 called      == [req EXCEPT !.coords = coordinates,
                                            !.invoked = TRUE,
                                            !.outcome = countryInfo.outcome,
                                            !.country = countryInfo.country,
                                            !.caught = countryInfo.caught]
             IN  [called EXCEPT !.status = ResponseStatus(countryInfo)]

server_getCountryByCoordinates(rawLat, rawLon) ==
    /\ serverPc = "listening"
    /\ last' = HttpRecord(rawLat, rawLon)
    /\ first' = IF last'.invoked
                THEN Remember("http", last'.coords, last')
                ELSE first
    /\ UNCHANGED <<fileExists, testDirExists, isLoaded, countryBoundaries,
                   loadPc, serverPc>>
    /\ UNCHANGED <<dbVars, shVars>>

(***************************************************************************)
(* Clients of the exported GeocodingService class, on the same instance.   *)
(***************************************************************************)
ClientLoadBegin(c) ==
    /\ c # ServerCaller
    /\ serverPc # "exited"
    /\ loadData_begin(c)
    /\ UNCHANGED <<fileExists, serverPc, first>>
    /\ UNCHANGED <<dbVars, shVars>>

ClientLoadResume(c) ==
    /\ c # ServerCaller
    /\ serverPc # "exited"
    /\ loadData_resume(c)
    /\ UNCHANGED <<fileExists, serverPc, first>>
    /\ UNCHANGED <<dbVars, shVars>>

\* mutant: a lookup that finds a country removes it from the map
ClientLookupEvicting(coordinates) ==
    /\ serverPc # "exited"
    /\ LET r == getCountryByCoordinates(coordinates)
       IN  /\ last' = [NoOp EXCEPT !.op = "lookup", !.coords = coordinates,
                                   !.invoked = TRUE, !.outcome = r.outcome,
                                   !.country = r.country, !.caught = r.caught]
           /\ first' = Remember("lookup", coordinates, r)
           /\ countryBoundaries' =
                  SelectSeq(countryBoundaries,
                            LAMBDA e : r.outcome # "country" \/ e[1] # r.country.code)
    /\ UNCHANGED <<fileExists, testDirExists, isLoaded, loadPc, serverPc>>
    /\ UNCHANGED <<dbVars, shVars>>

\* mutant: the catch block empties the map
ClientLookupClearing(coordinates) ==
    /\ serverPc # "exited"
    /\ LET r == getCountryByCoordinates(coordinates)
       IN  /\ last' = [NoOp EXCEPT !.op = "lookup", !.coords = coordinates,
                                   !.invoked = TRUE, !.outcome = r.outcome,
                                   !.country = r.country, !.caught = r.caught]
           /\ first' = Remember("lookup", coordinates, r)
           /\ countryBoundaries' = IF r.caught THEN <<>> ELSE countryBoundaries
    /\ UNCHANGED <<fileExists, testDirExists, isLoaded, loadPc, serverPc>>
    /\ UNCHANGED <<dbVars, shVars>>

ClientLookup(coordinates) ==
    /\ serverPc # "exited"
    /\ LET r == getCountryByCoordinates(coordinates)
       IN  /\ last' = [NoOp EXCEPT !.op = "lookup", !.coords = coordinates,
                                   !.invoked = TRUE, !.outcome = r.outcome,
                                   !.country = r.country, !.caught = r.caught]
           /\ first' = Remember("lookup", coordinates, r)
    /\ UNCHANGED <<fileExists, testDirExists, isLoaded, countryBoundaries,
                   loadPc, serverPc>>
    /\ UNCHANGED <<dbVars, shVars>>

(***************************************************************************)
(* The environment: the countries file is created or removed.              *)
(***************************************************************************)
FileChange ==
    /\ serverPc # "exited"
    /\ fileExists' = ~fileExists
    /\ UNCHANGED <<testDirExists, isLoaded, countryBoundaries, loadPc,
                   serverPc, last, first>>
    /\ UNCHANGED <<dbVars, shVars>>

Next ==
    \/ ServerBoot
    \/ initializeGeocodingService
    \/ ServerLoadResume
    \/ startServer
    \/ \E rawLat \in LatStrings, rawLon \in LonStrings :
           server_getCountryByCoordinates(rawLat, rawLon)
    \/ \E c \in Callers : ClientLoadBegin(c)
    \/ \E c \in Callers : ClientLoadResume(c)
    \/ \E coordinates \in Points : ClientLookup(coordinates)
    \/ FileChange

Spec == Init /\ [][Next]_vars

(***************************************************************************)
(* Part II.  The flex configuration embedded in bin/2-import-in-pg.sh:     *)
(* process_node, process_relation, process_stage1, and a query of the      *)
(* place_hierarchy view.                                                   *)
(***************************************************************************)
\* SQL NULL and Lua nil, for text values
Null == "NULL"

\* SQL NULL for an id (OSM ids are positive)
NullId == 0

\* iterations of the recursive term after which the model stops following it
MaxIter == 5

NullGeom == [null |-> TRUE, bbox |-> <<0, 0, 0, 0>>]

Box(west, south, east, north) ==
    [null |-> FALSE, bbox |-> <<west, south, east, north>>]

FranceBox == Box(Deg(-51), Deg(413), Deg(96), Deg(511))

IdfBox == Box(Deg(14), Deg(481), Deg(36), Deg(493))

\* mutant: a NULL geometry contains every point
ST_ContainsNullAsAll(g, pt) ==
    \/ g.null
    \/ /\ g.bbox[1] < pt[1] /\ pt[1] < g.bbox[3]
       /\ g.bbox[2] < pt[2] /\ pt[2] < g.bbox[4]

\* ST_Contains(polygon, point): the point lies in the interior; NULL is not true
ST_Contains(g, pt) ==
    /\ ~g.null
    /\ g.bbox[1] < pt[1] /\ pt[1] < g.bbox[3]
    /\ g.bbox[2] < pt[2] /\ pt[2] < g.bbox[4]

\* Lua tonumber on a tag value: the whole string is a numeral, or nil
tonumber(tag) ==
    IF tag # <<>> /\ \A k \in 1 .. Len(tag) : IsDigit(tag[k])
    THEN [nil |-> FALSE, v |-> IntOfDigits(tag)]
    ELSE [nil |-> TRUE, v |-> 0]

(***************************************************************************)
(* The OSM input: one place node and two administrative relations.         *)
(***************************************************************************)
Member(type, ref, role) == [type |-> type, ref |-> ref, role |-> role]

PlaceNode(pt) ==
    [kind |-> "node", id |-> 11, boundary |-> Null, place |-> "city",
     admin_level |-> <<>>, name |-> "Paris", members |-> <<>>,
     geom |-> Box(pt[1], pt[2], pt[1], pt[2])]

Relation(id, name, level, geom, members) ==
    [kind |-> "relation", id |-> id, boundary |-> "administrative",
     place |-> Null, admin_level |-> level, name |-> name,
     members |-> members, geom |-> geom]

\* positions of the place node, <<longitude, latitude>>
PlacePoints == { <<23522, 488566>>, <<Deg(54), Deg(433)>>, <<0, 0>> }

\* values of the admin_level tag (<<>> is a missing tag)
AdminLevelTags == { <<"2">>, <<"4">>, <<"8">>, <<"x">>, <<>> }

\* what as_multipolygon() gives for a relation
Geoms == { FranceBox, IdfBox, NullGeom }

\* member lists of relation id, whose other relation is 3 - id; node 11 is
\* the place node; relation 99 and way 7 are not in the file; -1 is the id of
\* an object that was never uploaded
MemberLists(id) ==
    { <<>>,
      << Member("r", 3 - id, "subarea") >>,
      << Member("n", 11, "label") >>,
      << Member("r", 3 - id, "subarea"), Member("n", 11, "admin_centre") >>,
      << Member("n", 11, "label"), Member("n", 11, "admin_centre") >>,
      << Member("r", 99, "subarea"), Member("w", 7, "outer") >>,
      << Member("w", 7, "outer"), Member("n", -1, "label"),
         Member("r", 3 - id, "subarea") >> }

(***************************************************************************)
(* The tables' rows.                                                       *)
(***************************************************************************)
\* the row process_relation inserts into admin_hierarchy for a member
MemberEdge(object, admin_level, member, child_type) ==
    [parent_id |-> object.id, parent_type |-> "R",
     parent_level |-> admin_level, parent_name |-> object.name,
     child_id |-> member.ref, child_type |-> child_type,
     child_level |-> 0, child_name |-> "", role |-> member.role]

\* mutant: way members are skipped
RECURSIVE MemberEdgesNoWays(_, _, _)
MemberEdgesNoWays(object, admin_level, i) ==
    IF i > Len(object.members) THEN <<>>
    ELSE LET member == object.members[i]
             row == IF member.type = "r" /\ member.ref > 0
                    THEN << MemberEdge(object, admin_level, member, "R") >>
                    ELSE IF member.type = "n" /\ member.ref > 0
                    THEN << MemberEdge(object, admin_level, member, "N") >>
                    ELSE <<>>
         IN  row \o MemberEdgesNoWays(object, admin_level, i + 1)

\* the rows of the relation's members, in member order
RECURSIVE MemberEdges(_, _, _)
MemberEdges(object, admin_level, i) ==
    IF i > Len(object.members) THEN <<>>
    ELSE LET member == object.members[i]
             row == IF member.type = "r" /\ member.ref > 0
                    THEN << MemberEdge(object, admin_level, member, "R") >>
                    ELSE IF member.type = "w" /\ member.ref > 0
                    THEN << MemberEdge(object, admin_level, member, "W") >>
                    ELSE IF member.type = "n" /\ member.ref > 0
                    THEN << MemberEdge(object, admin_level, member, "N") >>
                    ELSE <<>>
         IN  row \o MemberEdges(object, admin_level, i + 1)

\* some row of admin_hierarchy already links boundary b to place p
EdgeExists(ah, b, p) ==
    \E k \in 1 .. Len(ah) :
        /\ ah[k].parent_id = b.osm_id /\ ah[k].parent_type = b.osm_type
        /\ ah[k].child_id = p.osm_id /\ ah[k].child_type = "N"

\* INSERT INTO admin_hierarchy ... 'contains': the rows for boundary i, place j
ContainsEdge(ah, i, j) ==
    LET b == boundaries[i]
        p == places[j]
    IN  IF ST_Contains(b.geom, p.geom) /\ ~EdgeExists(ah, b, p)
        THEN << [parent_id |-> b.osm_id, parent_type |-> b.osm_type,
                 parent_level |-> b.admin_level, parent_name |-> b.name,
                 child_id |-> p.osm_id, child_type |-> "N",
                 child_level |-> 0, child_name |-> p.name,
                 role |-> "contains"] >>
        ELSE <<>>

RECURSIVE ContainsEdges(_, _, _)
ContainsEdges(ah, i, j) ==
    IF i > Len(boundaries) THEN <<>>
    ELSE IF j > Len(places) THEN ContainsEdges(ah, i + 1, 1)
    ELSE ContainsEdge(ah, i, j) \o ContainsEdges(ah, i, j + 1)

\* mutant: the update sets the level and leaves the name
UpdateChildLevelOnly(h) ==
    IF \E k \in 1 .. Len(boundaries) :
           h.child_id = boundaries[k].osm_id /\ h.child_type = boundaries[k].osm_type
    THEN LET b == boundaries[CHOOSE k \in 1 .. Len(boundaries) :
                                 /\ h.child_id = boundaries[k].osm_id
                                 /\ h.child_type = boundaries[k].osm_type]
         IN  [h EXCEPT !.child_level = b.admin_level]
    ELSE h

\* UPDATE admin_hierarchy h SET child_level, child_name FROM boundaries b
UpdateChild(h) ==
    IF \E k \in 1 .. Len(boundaries) :
           h.child_id = boundaries[k].osm_id /\ h.child_type = boundaries[k].osm_type
    THEN LET b == boundaries[CHOOSE k \in 1 .. Len(boundaries) :
                                 /\ h.child_id = boundaries[k].osm_id
                                 /\ h.child_type = boundaries[k].osm_type]
         IN  [h EXCEPT !.child_level = b.admin_level, !.child_name = b.name]
    ELSE h

(***************************************************************************)
(* The import.                                                             *)
(***************************************************************************)
process_node ==
    /\ importPc = "import"
    /\ cursor <= Len(osm)
    /\ osm[cursor].kind = "node"
    /\ LET object == osm[cursor]
       IN  places' = IF object.place # Null
                     THEN Append(places,
                                 [osm_id |-> object.id, place |-> object.place,
                                  name |-> object.name,
                                  geom |-> <<object.geom.bbox[1], object.geom.bbox[2]>>])
                     ELSE places
    /\ cursor' = cursor + 1
    /\ UNCHANGED <<osm, importPc, boundaries, admin_hierarchy, hWork, hRows,
                   hIter, place_hierarchy>>
    /\ UNCHANGED <<svcVars, shVars>>

process_relation ==
    /\ importPc = "import"
    /\ cursor <= Len(osm)
    /\ osm[cursor].kind = "relation"
    /\ LET object == osm[cursor]
           parsed == tonumber(object.admin_level)
           admin_level == IF parsed.nil THEN 0 ELSE parsed.v
       IN  IF object.boundary = "administrative"
           THEN /\ boundaries' =
                       Append(boundaries,
                              [osm_id |-> object.id, osm_type |-> "R",
                               admin_level |-> admin_level,
                               name |-> object.name, geom |-> object.geom])
                /\ admin_hierarchy' =
                       admin_hierarchy \o MemberEdges(object, admin_level, 1)
           ELSE UNCHANGED <<boundaries, admin_hierarchy>>
    /\ cursor' = cursor + 1
    /\ UNCHANGED <<osm, importPc, places, hWork, hRows, hIter, place_hierarchy>>
    /\ UNCHANGED <<svcVars, shVars>>

process_stage1 ==
    /\ importPc = "import"
    /\ cursor > Len(osm)
    /\ LET inserted == admin_hierarchy \o ContainsEdges(admin_hierarchy, 1, 1)
       IN  admin_hierarchy' = [k \in 1 .. Len(inserted) |-> UpdateChild(inserted[k])]
    /\ importPc' = "built"
    /\ UNCHANGED <<osm, cursor, boundaries, places, hWork, hRows, hIter,
                   place_hierarchy>>
    /\ UNCHANGED <<svcVars, shVars>>

(***************************************************************************)
(* SELECT * FROM place_hierarchy: the recursive CTE hierarchy is evaluated *)
(* term by term (the rows of one iteration are the working table of the   *)
(* next), then DISTINCT ON (place_id) keeps one row per place.             *)
(***************************************************************************)
\* the non-recursive term: one row per place
BaseRows ==
    { [place_id |-> places[j].osm_id, place_name |-> places[j].name,
       state_id |-> NullId, state_name |-> Null,
       country_id |-> NullId, country_name |-> Null] : j \in 1 .. Len(places) }

\* the child the join looks up for row h
JoinChildId(h) ==
    IF h.country_id # NullId THEN h.country_id
    ELSE IF h.state_id # NullId THEN h.state_id
    ELSE h.place_id

JoinChildType(h) ==
    IF h.country_id # NullId THEN "R"
    ELSE IF h.state_id # NullId THEN "R"
    ELSE "N"

Joined(h, ah, b) ==
    /\ ah.child_id = JoinChildId(h)
    /\ ah.child_type = JoinChildType(h)
    /\ b.osm_id = ah.parent_id
    /\ b.osm_type = ah.parent_type
    /\ (h.country_id = NullId \/ h.state_id = NullId)
    /\ b.admin_level \in {2, 4}

\* mutant: the levels of state and country exchanged
AscendedSwapped(h, b) ==
    [place_id |-> h.place_id, place_name |-> h.place_name,
     state_id |-> IF b.admin_level = 2 THEN b.osm_id ELSE h.state_id,
     state_name |-> IF b.admin_level = 2 THEN b.name ELSE h.state_name,
     country_id |-> IF b.admin_level = 4 THEN b.osm_id ELSE h.country_id,
     country_name |-> IF b.admin_level = 4 THEN b.name ELSE h.country_name]

Ascended(h, b) ==
    [place_id |-> h.place_id, place_name |-> h.place_name,
     state_id |-> IF b.admin_level = 4 THEN b.osm_id ELSE h.state_id,
     state_name |-> IF b.admin_level = 4 THEN b.name ELSE h.state_name,
     country_id |-> IF b.admin_level = 2 THEN b.osm_id ELSE h.country_id,
     country_name |-> IF b.admin_level = 2 THEN b.name ELSE h.country_name]

\* the recursive term, evaluated on the working table
RecursiveTerm(work) ==
    { Ascended(x[1], boundaries[x[3]]) :
        x \in { y \in work \X (1 .. Len(admin_hierarchy)) \X (1 .. Len(boundaries)) :
                  Joined(y[1], admin_hierarchy[y[2]], boundaries[y[3]]) } }

\* ORDER BY ... CASE WHEN country_id IS NOT NULL AND state_id IS NOT NULL THEN 1 ELSE 2 END
OrderKey(h) == IF h.country_id # NullId /\ h.state_id # NullId THEN 1 ELSE 2

\* WHERE country_id IS NOT NULL OR state_id IS NOT NULL
Selectable(rows) == {h \in rows : h.country_id # NullId \/ h.state_id # NullId}

\* the rows DISTINCT ON (place_id) may keep for place p: any first row in the order
FirstRows(rows, p) ==
    {h \in Selectable(rows) :
        /\ h.place_id = p
        /\ \A g \in Selectable(rows) : g.place_id = p => OrderKey(h) <= OrderKey(g)}

QueryStart ==
    /\ importPc = "built"
    /\ hWork' = BaseRows
    /\ hRows' = BaseRows
    /\ hIter' = 0
    /\ importPc' = "ascending"
    /\ UNCHANGED <<osm, cursor, boundaries, places, admin_hierarchy, place_hierarchy>>
    /\ UNCHANGED <<svcVars, shVars>>

QueryStep ==
    /\ importPc = "ascending"
    /\ hWork # {}
    /\ hIter < MaxIter
    /\ hWork' = RecursiveTerm(hWork)
    /\ hRows' = hRows \cup hWork'
    /\ hIter' = hIter + 1
    /\ UNCHANGED <<osm, cursor, importPc, boundaries, places, admin_hierarchy,
                   place_hierarchy>>
    /\ UNCHANGED <<svcVars, shVars>>

QuerySelect ==
    /\ importPc = "ascending"
    /\ hWork = {}
    /\ LET ids == {h.place_id : h \in Selectable(hRows)}
       IN  \E f \in [ids -> Selectable(hRows)] :
               /\ \A p \in ids : f[p] \in FirstRows(hRows, p)
               /\ place_hierarchy' = {f[p] : p \in ids}
    /\ importPc' = "selected"
    /\ UNCHANGED <<osm, cursor, boundaries, places, admin_hierarchy, hWork,
                   hRows, hIter>>
    /\ UNCHANGED <<svcVars, shVars>>

InitHier ==
    /\ fileExists = TRUE
    /\ testDirExists = FALSE
    /\ isLoaded = FALSE
    /\ countryBoundaries = <<>>
    /\ loadPc = [c \in Callers |-> "idle"]
    /\ serverPc = "init"
    /\ last = NoOp
    /\ first = NoFirst
    /\ \E pt \in PlacePoints, l1 \in AdminLevelTags, l2 \in AdminLevelTags,
          g1 \in Geoms, g2 \in Geoms,
          m1 \in MemberLists(1), m2 \in MemberLists(2) :
           osm = << PlaceNode(pt),
                    Relation(1, "France", l1, g1, m1),
                    Relation(2, "Ile-de-France", l2, g2, m2) >>
    /\ cursor = 1
    /\ importPc = "import"
    /\ boundaries = <<>>
    /\ places = <<>>
    /\ admin_hierarchy = <<>>
    /\ hWork = {}
    /\ hRows = {}
    /\ hIter = 0
    /\ place_hierarchy = {}
    /\ NoShell

NextHier ==
    \/ process_node
    \/ process_relation
    \/ process_stage1
    \/ QueryStart
    \/ QueryStep
    \/ QuerySelect

SpecHier == InitHier /\ [][NextHier]_vars

(***************************************************************************)
(* Part III.  The shell commands of bin/2-import-in-pg.sh (lines 1-67).    *)
(* The script runs under set -e: a command that fails ends the run.        *)
(***************************************************************************)
\* psql -d $DB_NAME -c "CREATE EXTENSION IF NOT EXISTS e;" succeeds
CanCreate(e) == e \in available

\* the extensions after the two CREATE EXTENSION commands, the second of
\* which runs only when the first succeeded
AfterCreateBoth(exts) ==
    IF ~CanCreate("postgis") THEN exts
    ELSE IF ~CanCreate("hstore") THEN exts \cup {"postgis"}
    ELSE exts \cup {"postgis", "hstore"}

CreatedBoth == CanCreate("postgis") /\ CanCreate("hstore")

\* lines 6-13
sh_pg_isready ==
    /\ shPc = "start"
    /\ shPc' = IF pgRunning THEN "database" ELSE "failed"
    /\ UNCHANGED <<pgRunning, dbExists, extensions, available, inputFiles,
                   imported, indexed>>
    /\ UNCHANGED <<svcVars, dbVars>>

\* lines 19-27
sh_create_database ==
    /\ shPc = "database"
    /\ IF ~dbExists
       THEN /\ dbExists' = TRUE
            /\ extensions' = AfterCreateBoth(extensions)
            /\ shPc' = IF CreatedBoth THEN "postgis" ELSE "failed"
       ELSE /\ shPc' = "postgis"
            /\ UNCHANGED <<dbExists, extensions>>
    /\ UNCHANGED <<pgRunning, available, inputFiles, imported, indexed>>
    /\ UNCHANGED <<svcVars, dbVars>>

\* lines 30-34: the extensions are created when SELECT postgis_version() fails
sh_enable_postgis ==
    /\ shPc = "postgis"
    /\ IF "postgis" \notin extensions
       THEN /\ extensions' = AfterCreateBoth(extensions)
            /\ shPc' = IF CreatedBoth THEN "files" ELSE "failed"
       ELSE /\ shPc' = "files"
            /\ UNCHANGED extensions
    /\ UNCHANGED <<pgRunning, dbExists, available, inputFiles, imported, indexed>>
    /\ UNCHANGED <<svcVars, dbVars>>

\* lines 37-48
sh_check_files ==
    /\ shPc = "files"
    /\ shPc' = IF {"data/admin-boundaries.osm.pbf", "bin/2-admin-boundaries.lua"}
                      \subseteq inputFiles
                THEN "osm2pgsql" ELSE "failed"
    /\ UNCHANGED <<pgRunning, dbExists, extensions, available, inputFiles,
                   imported, indexed>>
    /\ UNCHANGED <<svcVars, dbVars>>

\* lines 52-59: the flex tables have geometry and jsonb columns, no hstore column
sh_osm2pgsql ==
    /\ shPc = "osm2pgsql"
    /\ IF "postgis" \in extensions
       THEN imported' = TRUE /\ shPc' = "indexes"
       ELSE imported' = imported /\ shPc' = "failed"
    /\ UNCHANGED <<pgRunning, dbExists, extensions, available, inputFiles, indexed>>
    /\ UNCHANGED <<svcVars, dbVars>>

\* lines 61-67
sh_create_indexes ==
    /\ shPc = "indexes"
    /\ indexed' = TRUE
    /\ shPc' = "completed"
    /\ UNCHANGED <<pgRunning, dbExists, extensions, available, inputFiles, imported>>
    /\ UNCHANGED <<svcVars, dbVars>>

\* the hosts the script is started on
InitDb ==
    /\ fileExists = TRUE
    /\ testDirExists = FALSE
    /\ isLoaded = FALSE
    /\ countryBoundaries = <<>>
    /\ loadPc = [c \in Callers |-> "idle"]
    /\ serverPc = "init"
    /\ last = NoOp
    /\ first = NoFirst
    /\ NoImport
    /\ shPc = "start"
    /\ pgRunning \in BOOLEAN
    /\ dbExists \in BOOLEAN
    /\ extensions \in SUBSET {"postgis", "hstore"}
    /\ dbExists = FALSE => extensions = {}
    /\ available \in SUBSET {"postgis", "hstore"}
    /\ extensions \subseteq available
    /\ inputFiles \in SUBSET {"data/admin-boundaries.osm.pbf",
                               "bin/2-admin-boundaries.lua"}
    /\ imported = FALSE
    /\ indexed = FALSE

NextDb ==
    \/ sh_pg_isready
    \/ sh_create_database
    \/ sh_enable_postgis
    \/ sh_check_files
    \/ sh_osm2pgsql
    \/ sh_create_indexes

SpecDb == InitDb /\ [][NextDb]_vars

(***************************************************************************)
(* Properties of Part I.                                                   *)
(***************************************************************************)
\* the stored boundaries, in insertion order
Boundary(i) == countryBoundaries[i][2]

\* the point lies in the boundary's box, edges included
InBox(b, c) ==
    /\ b.bbox[1] <= c.longitude /\ c.longitude <= b.bbox[3]
    /\ b.bbox[2] <= c.latitude  /\ c.latitude  <= b.bbox[4]

\* the point lies in the boundary's box, off its edges
StrictlyInBox(b, c) ==
    /\ b.bbox[1] < c.longitude /\ c.longitude < b.bbox[3]
    /\ b.bbox[2] < c.latitude  /\ c.latitude  < b.bbox[4]

Containing(c) ==
    {i \in 1 .. Len(countryBoundaries) : InBox(Boundary(i), c)}

\* the area of a boundary's box, in square tenths of a degree
Area(b) == ((b.bbox[3] - b.bbox[1]) \div 1000) * ((b.bbox[4] - b.bbox[2]) \div 1000)

\* the last operation was a lookup that the service answered
Answered ==
    /\ last.op \in {"http", "lookup"}
    /\ last.invoked
    /\ last.outcome \in {"country", "null"}

\* C1: a lookup of a point that several loaded boundaries contain returns
\* the one of smallest area.
C1_SmallestAreaWins ==
    (Answered /\ Containing(last.coords) # {})
        => \E i \in Containing(last.coords) :
               /\ last.outcome = "country"
               /\ last.country = CountryInfoOf(Boundary(i))
               /\ \A j \in Containing(last.coords) :
                      Area(Boundary(i)) <= Area(Boundary(j))

\* C3: a lookup of a valid point outside every loaded boundary returns null,
\* no country, and the HTTP handler answers 404.
C3_OutsideIsNotFound ==
    (Answered /\ ~OutOfRange(last.coords.latitude, last.coords.longitude)
              /\ Containing(last.coords) = {})
        => /\ last.outcome = "null"
           /\ last.country = NoCountry
           /\ last.op = "http" => last.status = 404

C3_Witness ==
    /\ last.op = "http"
    /\ last.invoked
    /\ last.coords = Coord(0, 0)
    /\ last.status = 404

\* C4: a lookup of a point strictly inside exactly one loaded boundary
\* returns that boundary's name, code, continent and population.
C4_SingleBoundaryReturned ==
    \A i \in 1 .. Len(countryBoundaries) :
        (/\ last.op \in {"http", "lookup"}
         /\ last.invoked
         /\ isLoaded
         /\ Containing(last.coords) = {i}
         /\ StrictlyInBox(Boundary(i), last.coords))
            => /\ last.outcome = "country"
               /\ last.country = CountryInfoOf(Boundary(i))
               /\ last.op = "http" => last.status = 200

C4_Witness ==
    /\ last.op = "lookup"
    /\ last.coords = Paris
    /\ last.outcome = "country"
    /\ last.country.name = "France"
    /\ Containing(Paris) = {1}

\* C6: a lookup on the loaded service returns what the first lookup of the
\* same point on the loaded service returned.
C6_SamePointSameAnswer ==
    (first.set /\ last.op \in {"http", "lookup"} /\ last.invoked
               /\ last.coords = first.coords)
        => /\ last.outcome = first.outcome
           /\ last.country = first.country

C6_Witness ==
    /\ first.set
    /\ first.op = "lookup"
    /\ last.op = "http"
    /\ last.invoked
    /\ last.coords = first.coords
    /\ last.outcome = "country"

\* the whole value is a number: an optional sign, digits, an optional fraction
IsNumeric(s) ==
    LET u  == IF s # <<>> /\ s[1] \in {"-", "+"} THEN Tail(s) ELSE s
        ip == DigitPrefix(u)
        r  == SubSeq(u, Len(ip) + 1, Len(u))
    IN  /\ ip # <<>>
        /\ \/ r = <<>>
           \/ /\ r[1] = "."
              /\ Len(r) > 1
              /\ \A k \in 2 .. Len(r) : IsDigit(r[k])

\* C7: a request with a non-numeric or out-of-range latitude or longitude is
\* answered 400 and the service's lookup is not called for it.
C7_InvalidRequestRejected ==
    (/\ last.op = "http"
     /\ \/ ~IsNumeric(last.rawLat)
        \/ ~IsNumeric(last.rawLon)
        \/ OutOfRange(parseFloat(last.rawLat).v, parseFloat(last.rawLon).v))
        => /\ last.status = 400
           /\ ~last.invoked

\* C8: a direct lookup of an out-of-range point is rejected: it returns
\* neither a country nor not-found.
C8_CoreRejectsOutOfRange ==
    (/\ last.op = "lookup"
     /\ isLoaded
     /\ OutOfRange(last.coords.latitude, last.coords.longitude))
        => last.outcome \notin {"country", "null"}

\* C9: a lookup is answered only by a loaded service, a loaded service holds
\* every predefined country, and the server listens only after its loadData
\* call resolved.
C9_OnlyBuiltSnapshotsAnswer ==
    /\ Answered => isLoaded
    /\ (last.op = "lookup" /\ ~isLoaded) => last.outcome = "throw"
    /\ isLoaded =>
           /\ Len(countryBoundaries) = Len(countries)
           /\ \A k \in 1 .. Len(countries) :
                  /\ Boundary(k).code = countries[k].code
                  /\ Boundary(k).geometry = bboxPolygon(countries[k].bbox)
    /\ serverPc = "listening" => (isLoaded /\ loadPc[ServerCaller] = "resolved")

C9_Witness ==
    /\ serverPc = "listening"
    /\ last.op = "http"
    /\ last.status = 200

\* C10: a loadData call that finds the countries file missing is rejected
\* and changes neither the loaded flag nor the stored boundaries; the server
\* never listens after its own call was rejected.
C10_FailedLoadChangesNothing ==
    /\ [][\A c \in Callers :
              (loadPc[c] = "idle" /\ loadPc'[c] # "idle" /\ ~fileExists)
                  => /\ isLoaded' = isLoaded
                     /\ countryBoundaries' = countryBoundaries
                     /\ ~isLoaded => (/\ loadPc'[c] = "rejected"
                                      /\ last'.op = "loadData"
                                      /\ last'.outcome = "rejected")]_vars
    /\ [](loadPc[ServerCaller] = "rejected" => serverPc # "listening")
    /\ []((\E c \in Callers : loadPc[c] = "rejected" /\ last.outcome = "rejected")
             => (~isLoaded /\ countryBoundaries = <<>>))

C10_Witness ==
    /\ \E c \in Callers : c # ServerCaller /\ loadPc[c] = "rejected"
    /\ last.op = "loadData"
    /\ last.outcome = "rejected"
    /\ ~isLoaded

\* what a lookup returns on a service that holds the predefined countries and
\* has served no other lookup
LookupAlone(coordinates) ==
    IF ~isNumber(coordinates)
    THEN [outcome |-> "null", country |-> NoCountry]
    ELSE FirstContaining(loadPredefinedCountries(<<>>),
                         point(<<coordinates.longitude, coordinates.latitude>>), 1)

\* C11: a lookup, whether it returns a country, returns null, returns null
\* from its catch block or throws, changes neither the loaded flag nor the
\* stored boundaries, and every answered lookup returns what it would return
\* had no other lookup run.
C11_LookupChangesNothing ==
    /\ [][(last' # last /\ last'.op \in {"http", "lookup"})
              => /\ isLoaded' = isLoaded
                 /\ countryBoundaries' = countryBoundaries]_vars
    /\ [](Answered => /\ last.outcome = LookupAlone(last.coords).outcome
                      /\ last.country = LookupAlone(last.coords).country)

C11_Witness ==
    /\ first.set
    /\ first.coords = NaNCoord
    /\ last.op = "http"
    /\ last.status = 200
    /\ last.country.name = "France"
    /\ isLoaded
    /\ Len(countryBoundaries) = Len(countries)

\* C22: however the loadData calls interleave, a service on which a call
\* has resolved is loaded, a loaded service holds exactly the eight predefined
\* countries, one entry per code, and a call that starts on a loaded service
\* resolves at once and changes neither the flag nor the entries.
C22_ConcurrentLoadsAgree ==
    /\ []((\E c \in Callers : loadPc[c] = "resolved") => isLoaded)
    /\ [](isLoaded => /\ countryBoundaries = loadPredefinedCountries(<<>>)
                      /\ Len(countryBoundaries) = 8)
    /\ [](\A i \in 1 .. Len(countryBoundaries), j \in 1 .. Len(countryBoundaries) :
              i # j => countryBoundaries[i][1] # countryBoundaries[j][1])
    /\ [][\A c \in Callers :
              (isLoaded /\ loadPc[c] = "idle" /\ loadPc'[c] # "idle")
                  => /\ loadPc'[c] = "resolved"
                     /\ isLoaded' = isLoaded
                     /\ countryBoundaries' = countryBoundaries]_vars

\* the server's call has stored the countries while a client's call, begun
\* before the flag was set, is still at its await
C22_Witness ==
    /\ loadPc[ServerCaller] = "resolved"
    /\ \E c \in Callers : c # ServerCaller /\ loadPc[c] = "await"
    /\ isLoaded
    /\ Len(countryBoundaries) = 8

\* C23: a lookup on a loaded service never throws; when turf.point raises
\* inside it, the lookup returns null from its catch block, for which the
\* handler answers 404; the handler answers 404 for every null and 500 only
\* when the lookup threw, which it does only on a service that is not loaded.
C23_CaughtErrorIsNotFound ==
    /\ [][(isLoaded /\ last' # last /\ last'.op \in {"http", "lookup"}
                    /\ last'.invoked)
              => /\ last'.outcome # "throw"
                 /\ ~isNumber(last'.coords)
                        => /\ last'.caught
                           /\ last'.outcome = "null"
                           /\ ResponseStatus(last') = 404]_vars
    /\ [](last.caught => last.outcome = "null")
    /\ []((last.op = "http" /\ last.invoked /\ last.outcome = "null")
              => last.status = 404)
    /\ [](last.status = 500 => last.outcome = "throw")
    /\ [][(last' # last /\ last'.outcome = "throw") => ~isLoaded]_vars

C23_Witness ==
    /\ isLoaded
    /\ last.op = "lookup"
    /\ last.coords = NaNCoord
    /\ last.caught
    /\ last.outcome = "null"
    /\ ResponseStatus(last) = 404

(***************************************************************************)
(* Properties of Part II.                                                  *)
(***************************************************************************)
\* C2: the ascent of place_hierarchy ends within a bounded number of steps
\* on every edge set: following parent edges through distinct boundaries
\* takes at most one iteration per boundary, and one more to find no parent.
C2_AscentTerminates == hIter <= Len(boundaries) + 1

\* the imported data are the France country boundary with its box, the
\* Ile-de-France state boundary and the place Paris at 48.8566, 2.3522
ParisDataset ==
    /\ osm[1].name = "Paris"
    /\ osm[1].geom = Box(Paris.longitude, Paris.latitude,
                         Paris.longitude, Paris.latitude)
    /\ osm[2].name = "France"
    /\ osm[2].admin_level = <<"2">>
    /\ osm[2].geom = FranceBox
    /\ osm[3].name = "Ile-de-France"
    /\ osm[3].admin_level = <<"4">>
    /\ osm[3].geom = IdfBox

\* C5: against the France boundary, the Ile-de-France boundary and the place
\* Paris, the point 48.8566, 2.3522 resolves to city Paris, state
\* Ile-de-France, country France.
C5_ParisResolves ==
    (ParisDataset /\ importPc = "selected")
        => \E h \in place_hierarchy :
               /\ h.place_name = "Paris"
               /\ h.state_name = "Ile-de-France"
               /\ h.country_name = "France"

\* process_stage1 has run: the hierarchy is built
Built == importPc # "import"

SamePair(e, f) ==
    /\ e.parent_id = f.parent_id /\ e.parent_type = f.parent_type
    /\ e.child_id = f.child_id /\ e.child_type = f.child_type

\* C12: once the hierarchy is built, admin_hierarchy holds at most one row
\* per (parent, child) pair, and no pair has both a relation-membership row
\* and a 'contains' row.
C12_OneEdgePerPair ==
    Built => \A i \in 1 .. Len(admin_hierarchy), j \in 1 .. Len(admin_hierarchy) :
                 (i # j) => ~SamePair(admin_hierarchy[i], admin_hierarchy[j])

\* the object (id, type) is a row of boundaries or of places
Stored(id, type) ==
    \/ \E k \in 1 .. Len(boundaries) :
           boundaries[k].osm_id = id /\ boundaries[k].osm_type = type
    \/ type = "N" /\ \E k \in 1 .. Len(places) : places[k].osm_id = id

\* C13: once the hierarchy is built, no row of admin_hierarchy has a child
\* that is neither a stored boundary nor a stored place: members that refer
\* to absent objects have left no edge.
C13_DanglingMemberDropped ==
    Built => \A k \in 1 .. Len(admin_hierarchy) :
                 Stored(admin_hierarchy[k].child_id, admin_hierarchy[k].child_type)

\* the boundary row that is the parent of edge e
ParentRows(e) ==
    {k \in 1 .. Len(boundaries) :
        /\ boundaries[k].osm_id = e.parent_id
        /\ boundaries[k].osm_type = e.parent_type}

\* C14: every administrative relation read so far is a row of boundaries,
\* with its geometry even when that is NULL; a boundary whose geometry is
\* NULL is selected by the containment query for no place and is the parent
\* of no 'contains' row.
C14_NullGeometryKeptNotContaining ==
    /\ \A k \in 1 .. (cursor - 1) :
           (osm[k].kind = "relation" /\ osm[k].boundary = "administrative")
               => \E i \in 1 .. Len(boundaries) :
                      /\ boundaries[i].osm_id = osm[k].id
                      /\ boundaries[i].geom = osm[k].geom
    /\ \A i \in 1 .. Len(boundaries), j \in 1 .. Len(places) :
           boundaries[i].geom.null => ContainsEdge(<<>>, i, j) = <<>>
    /\ \A k \in 1 .. Len(admin_hierarchy) :
           admin_hierarchy[k].role = "contains"
               => \A i \in ParentRows(admin_hierarchy[k]) : ~boundaries[i].geom.null

C14_Witness ==
    /\ Built
    /\ Len(boundaries) = 2
    /\ boundaries[1].geom.null
    /\ boundaries[2].geom = FranceBox
    /\ \E k \in 1 .. Len(admin_hierarchy) :
           /\ admin_hierarchy[k].role = "contains"
           /\ admin_hierarchy[k].parent_id = 2
    /\ \A k \in 1 .. Len(admin_hierarchy) : admin_hierarchy[k].parent_id # 1

\* some stored boundary has this id, level and name
IsBoundary(id, level, name) ==
    \E k \in 1 .. Len(boundaries) :
        /\ boundaries[k].osm_id = id
        /\ boundaries[k].admin_level = level
        /\ boundaries[k].name = name

\* the level process_relation stores for an admin_level tag
StoredLevel(tag) == IF tonumber(tag).nil THEN 0 ELSE tonumber(tag).v

\* C15: in every row of the ascent and of place_hierarchy the state is a
\* stored boundary of level 4 and the country a stored boundary of level 2;
\* a boundary of another level (0 when the tag is not a number) is stored
\* but is the state or country of no row.
C15_StateIs4CountryIs2 ==
    /\ \A h \in hRows \cup place_hierarchy :
           /\ h.state_id # NullId => IsBoundary(h.state_id, 4, h.state_name)
           /\ h.country_id # NullId => IsBoundary(h.country_id, 2, h.country_name)
           /\ \A k \in 1 .. Len(boundaries) :
                  boundaries[k].admin_level \notin {2, 4}
                      => /\ h.state_id # boundaries[k].osm_id
                         /\ h.country_id # boundaries[k].osm_id
    /\ \A k \in 1 .. (cursor - 1) :
           osm[k].kind = "relation"
               => IsBoundary(osm[k].id, StoredLevel(osm[k].admin_level), osm[k].name)

C15_Witness ==
    /\ importPc = "selected"
    /\ \E h \in place_hierarchy : h.state_id = 2 /\ h.country_id = NullId
    /\ boundaries[1].admin_level = 0
    /\ \E k \in 1 .. Len(admin_hierarchy) :
           /\ admin_hierarchy[k].parent_id = 1
           /\ admin_hierarchy[k].child_id = 11
           /\ admin_hierarchy[k].child_type = "N"

\* C16: when some row of the ascent of a place has a country, the row that
\* place_hierarchy keeps for the place has a country.
C16_CountryPathPreferred ==
    importPc = "selected"
        => \A h \in place_hierarchy :
               (\E g \in hRows : g.place_id = h.place_id /\ g.country_id # NullId)
                   => h.country_id # NullId

\* polygon g lies in the interior of polygon f
Encloses(f, g) ==
    /\ ~f.null /\ ~g.null
    /\ f.bbox[1] < g.bbox[1] /\ g.bbox[3] < f.bbox[3]
    /\ f.bbox[2] < g.bbox[2] /\ g.bbox[4] < f.bbox[4]

\* some relation lists boundary b as a member
HasExplicitParent(b) ==
    \E k \in 1 .. Len(admin_hierarchy) :
        /\ admin_hierarchy[k].child_id = b.osm_id
        /\ admin_hierarchy[k].child_type = b.osm_type
        /\ admin_hierarchy[k].role # "contains"

\* C17: once the hierarchy is built, a boundary that no relation lists as a
\* member and whose polygon lies inside the polygon of a level-2 or level-4
\* boundary is the child of a 'contains' row whose parent is that boundary.
C17_BoundariesGetContainsEdges ==
    Built => \A i \in 1 .. Len(boundaries), j \in 1 .. Len(boundaries) :
                 (/\ boundaries[i].admin_level \in {2, 4}
                  /\ Encloses(boundaries[i].geom, boundaries[j].geom)
                  /\ ~HasExplicitParent(boundaries[j]))
                     => \E k \in 1 .. Len(admin_hierarchy) :
                            /\ admin_hierarchy[k].role = "contains"
                            /\ admin_hierarchy[k].parent_id = boundaries[i].osm_id
                            /\ admin_hierarchy[k].parent_type = boundaries[i].osm_type
                            /\ admin_hierarchy[k].child_id = boundaries[j].osm_id
                            /\ admin_hierarchy[k].child_type = boundaries[j].osm_type

\* the members of a relation that are relations, ways or nodes with a
\* positive reference, in member order
PositiveMembers(object) ==
    SelectSeq(object.members,
              LAMBDA m : m.type \in {"r", "w", "n"} /\ m.ref > 0)

\* the membership rows of admin_hierarchy whose parent is relation id
ExplicitEdgesOf(id) ==
    SelectSeq(admin_hierarchy,
              LAMBDA e : e.parent_id = id /\ e.role # "contains")

TypeLetter(t) == IF t = "r" THEN "R" ELSE IF t = "w" THEN "W" ELSE "N"

ChildRows(e) ==
    {k \in 1 .. Len(boundaries) :
        /\ boundaries[k].osm_id = e.child_id
        /\ boundaries[k].osm_type = e.child_type}

\* C20: once process_stage1 has run, a row of admin_hierarchy whose child is
\* a stored boundary carries that boundary's level and name as child_level and
\* child_name, and a row whose child is no stored boundary has child_level 0.
C20_ChildLevelBackfilled ==
    Built => \A k \in 1 .. Len(admin_hierarchy) :
                 LET e == admin_hierarchy[k]
                 IN  /\ \A i \in ChildRows(e) :
                            /\ e.child_level = boundaries[i].admin_level
                            /\ e.child_name = boundaries[i].name
                     /\ ChildRows(e) = {} => e.child_level = 0

C20_Witness ==
    /\ Built
    /\ \E k \in 1 .. Len(admin_hierarchy) :
           /\ admin_hierarchy[k].child_id = 2
           /\ admin_hierarchy[k].child_type = "R"
           /\ admin_hierarchy[k].child_level = 4
           /\ admin_hierarchy[k].child_name = "Ile-de-France"
    /\ \E k \in 1 .. Len(admin_hierarchy) :
           /\ admin_hierarchy[k].child_id = 7
           /\ admin_hierarchy[k].child_type = "W"
           /\ admin_hierarchy[k].child_level = 0

\* admin_hierarchy has a row from boundary b to the object (id, type)
Edge(b, id, type) ==
    \E k \in 1 .. Len(admin_hierarchy) :
        /\ admin_hierarchy[k].parent_id = b.osm_id
        /\ admin_hierarchy[k].parent_type = b.osm_type
        /\ admin_hierarchy[k].child_id = id
        /\ admin_hierarchy[k].child_type = type

\* C21: when a place is the child of a boundary whose level is neither 2
\* nor 4, that boundary is the child of a level-4 boundary, and the place is
\* not itself a child of the level-4 boundary, place_hierarchy reports the
\* level-4 boundary as the state of the place.
C21_AscentThroughAnyLevel ==
    importPc = "selected"
        => \A p \in 1 .. Len(places), i \in 1 .. Len(boundaries),
              j \in 1 .. Len(boundaries) :
               (/\ boundaries[i].admin_level \notin {2, 4}
                /\ boundaries[j].admin_level = 4
                /\ Edge(boundaries[i], places[p].osm_id, "N")
                /\ Edge(boundaries[j], boundaries[i].osm_id, boundaries[i].osm_type)
                /\ ~Edge(boundaries[j], places[p].osm_id, "N"))
                   => \E h \in place_hierarchy :
                          /\ h.place_id = places[p].osm_id
                          /\ h.state_id = boundaries[j].osm_id

(***************************************************************************)
(* Properties of Part III.                                                 *)
(***************************************************************************)
\* C19: when bin/2-import-in-pg.sh has completed, the database reverse_geo
\* exists and has the postgis and the hstore extension.
C19_ExtensionsEnabled ==
    shPc = "completed"
        => /\ dbExists
           /\ {"postgis", "hstore"} \subseteq extensions

====
